---- MODULE Spec2Model ----
(***************************************************************************)
(* ElectricEye CloudHSM auditor (eeauditor/auditors/aws/                   *)
(* AWS_CloudHSM_Auditor.py): the cache-wrapped describe_clusters call and  *)
(* the three registered checks, each a Python generator the driver pulls   *)
(* findings from one at a time.                                            *)
(***************************************************************************)
EXTENDS Integers, Sequences, FiniteSets, TLC

VARIABLES
    clusters,   \* provider state: what cloudhsm.describe_clusters() lists
    backups,    \* provider state: every backup of the account
    caches,     \* one cache dict per audit pass, caches[p]
    gens,       \* the generator objects the driver obtained by calling a check
    clock       \* datetime.datetime.now(utc), in ticks

vars == <<clusters, backups, caches, gens, clock>>

----------------------------------------------------------------------------
(* Bounds of the model *)

MaxClusters == 2    \* clusters of the account
MaxHsms == 2        \* HSMs of the account, over all its clusters
MaxBackups == 2     \* backups of the account, over all its clusters
MaxClock == 1       \* ticks of the clock
MaxGens == 2        \* checks the driver calls, over all passes
MaxDriverClusters == 1  \* clusters of the account the driver audits in several passes
MaxPasses == 2      \* audit passes

----------------------------------------------------------------------------
(* Python values *)

\* None, as returned by dict.get for a missing key
PyNone == [None |-> TRUE]

\* Truthy as "if response and response['Clusters']" would have it
TruthyNonEmptyList(v) == v # PyNone /\ DOMAIN v # {} /\ v.Clusters # << >>

\* bool(v) for the values the cache can hold: None and an empty dict are falsy
Truthy(v) == v # PyNone /\ DOMAIN v # {}

\* cache.get(key)
CacheGet(cache, key) == IF key \in DOMAIN cache THEN cache[key] ELSE PyNone

\* cache[key] = value
CacheSet(cache, key, value) ==
    [k \in DOMAIN cache \cup {key} |-> IF k = key THEN value ELSE cache[k]]

\* datetime.datetime.now(datetime.timezone.utc).isoformat()
IsoFormat(t) == "T" \o ToString(t) \o "+00:00"

----------------------------------------------------------------------------
(* The provider (boto3 cloudhsmv2 client) *)

\* cloudhsm.describe_clusters()
ProviderDescribeClusters == [Clusters |-> clusters]

\* cloudhsm.describe_backups(Filters = {'clusterIds': ids})
ProviderDescribeBackups(Filters) ==
    [Backups |-> SelectSeq(backups, LAMBDA b : \E n \in 1..Len(Filters.clusterIds) :
                                                  Filters.clusterIds[n] = b.ClusterId)]

----------------------------------------------------------------------------
(* Finding records *)

RelatedRequirements ==
    << "NIST CSF DE.AE-2", "NIST CSF DE.AE-3", "NIST CSF DE.AE-5",
       "NIST CSF DE.CM-1", "NIST CSF DE.DP-2", "NIST SP 800-53 AC-2",
       "NIST SP 800-53 AU-6", "NIST SP 800-53 AU-12", "NIST SP 800-53 IR-5",
       "NIST SP 800-53 IR-6", "AICPA TSC CC4.1", "AICPA TSC CC5.1",
       "ISO 27001:2013 A.10.1.2", "ISO 27001:2013 A.12.4.1" >>

ProductArn(awsPartition, awsRegion, awsAccountId) ==
    "arn:" \o awsPartition \o ":securityhub:" \o awsRegion \o ":" \o awsAccountId
        \o ":product/" \o awsAccountId \o "/default"

\* the resource block of a cluster-level finding
ClusterResource(ClusterId, ctx) ==
    << [ Type |-> "AwsCloudHsmCluster",
         Id |-> ClusterId,
         Partition |-> ctx.awsPartition,
         Region |-> ctx.awsRegion,
         Details |-> [AwsCloudHsmCluster |-> [ClusterId |-> ClusterId]] ] >>

\* the resource block of an HSM-level finding
HsmResource(HsmId, ctx) ==
    << [ Type |-> "AwsCloudHsmHsm",
         Id |-> HsmId,
         Partition |-> ctx.awsPartition,
         Region |-> ctx.awsRegion,
         Details |-> [AwsCloudHsmHsm |-> [HsmId |-> HsmId]] ] >>

\* the rule slug appended to the resource id in "Id", per check
ClusterDegradationSlug == "/cloudhsm-cluster-degradation-check"
HsmDegradationSlug == "/cloudhsm-cluster-degradation-check"
ClusterBackupSlug == "/cloudhsm-cluster-backup-check"

\* the passing finding with the time of the run in its Id
ClusterDegradationPassedTimedId(ClusterId, iso8601Time, ctx) ==
    [ SchemaVersion |-> "2018-10-08",
      Id |-> ClusterId \o ClusterDegradationSlug \o "/" \o iso8601Time,
      ProductArn |-> ProductArn(ctx.awsPartition, ctx.awsRegion, ctx.awsAccountId),
      GeneratorId |-> ClusterId,
      AwsAccountId |-> ctx.awsAccountId,
      Types |-> << "Software and Configuration Checks/AWS Security Best Practices" >>,
      FirstObservedAt |-> iso8601Time,
      CreatedAt |-> iso8601Time,
      UpdatedAt |-> iso8601Time,
      Severity |-> [Label |-> "INFORMATIONAL"],
      Confidence |-> 99,
      Title |-> "[CloudHsm.1] CloudHsm clusters should not be in a degraded state",
      Description |-> "CloudHSM cluster " \o ClusterId \o " is not in a degraded state",
      Remediation |-> [Recommendation |->
          [ Text |-> "For more information on HSM Clusters refer to the AWS CloudHsm User Guide on managing cloudhsm clusters",
            Url |-> "https://docs.aws.amazon.com/cloudhsm/latest/userguide/manage-clusters.html" ]],
      ProductFields |-> ("Product Name" :> "ElectricEye"),
      Resources |-> ClusterResource(ClusterId, ctx),
      Compliance |-> [Status |-> "PASSED", RelatedRequirements |-> RelatedRequirements],
      Workflow |-> [Status |-> "RESOLVED"],
      RecordState |-> "ARCHIVED" ]

\* [CloudHsm.1], the passing finding
ClusterDegradationPassed(ClusterId, iso8601Time, ctx) ==
    [ SchemaVersion |-> "2018-10-08",
      Id |-> ClusterId \o ClusterDegradationSlug,
      ProductArn |-> ProductArn(ctx.awsPartition, ctx.awsRegion, ctx.awsAccountId),
      GeneratorId |-> ClusterId,
      AwsAccountId |-> ctx.awsAccountId,
      Types |-> << "Software and Configuration Checks/AWS Security Best Practices" >>,
      FirstObservedAt |-> iso8601Time,
      CreatedAt |-> iso8601Time,
      UpdatedAt |-> iso8601Time,
      Severity |-> [Label |-> "INFORMATIONAL"],
      Confidence |-> 99,
      Title |-> "[CloudHsm.1] CloudHsm clusters should not be in a degraded state",
      Description |-> "CloudHSM cluster " \o ClusterId \o " is not in a degraded state",
      Remediation |-> [Recommendation |->
          [ Text |-> "For more information on HSM Clusters refer to the AWS CloudHsm User Guide on managing cloudhsm clusters",
            Url |-> "https://docs.aws.amazon.com/cloudhsm/latest/userguide/manage-clusters.html" ]],
      ProductFields |-> ("Product Name" :> "ElectricEye"),
      Resources |-> ClusterResource(ClusterId, ctx),
      Compliance |-> [Status |-> "PASSED", RelatedRequirements |-> RelatedRequirements],
      Workflow |-> [Status |-> "RESOLVED"],
      RecordState |-> "ARCHIVED" ]

\* [CloudHsm.1], the failing finding
ClusterDegradationFailed(ClusterId, iso8601Time, ctx) ==
    [ SchemaVersion |-> "2018-10-08",
      Id |-> ClusterId \o ClusterDegradationSlug,
      ProductArn |-> ProductArn(ctx.awsPartition, ctx.awsRegion, ctx.awsAccountId),
      GeneratorId |-> ClusterId,
      AwsAccountId |-> ctx.awsAccountId,
      Types |-> << "Software and Configuration Checks/AWS Security Best Practices" >>,
      FirstObservedAt |-> iso8601Time,
      CreatedAt |-> iso8601Time,
      UpdatedAt |-> iso8601Time,
      Severity |-> [Label |-> "HIGH"],
      Confidence |-> 99,
      Title |-> "[CloudHsm.1] CloudHsm clusters should not be in a degraded state",
      Description |-> "CloudHSM cluster " \o ClusterId \o " is in a degraded state",
      Remediation |-> [Recommendation |->
          [ Text |-> "For more information on HSM Clusters refer to the AWS CloudHsm User Guide on managing cloudhsm clusters",
            Url |-> "https://docs.aws.amazon.com/cloudhsm/latest/userguide/manage-clusters.html" ]],
      ProductFields |-> ("Product Name" :> "ElectricEye"),
      Resources |-> ClusterResource(ClusterId, ctx),
      Compliance |-> [Status |-> "FAILED", RelatedRequirements |-> RelatedRequirements],
      Workflow |-> [Status |-> "NEW"],
      RecordState |-> "ACTIVE" ]

\* [CloudHsm.2], the passing finding
HsmDegradationPassed(HsmId, iso8601Time, ctx) ==
    [ SchemaVersion |-> "2018-10-08",
      Id |-> HsmId \o HsmDegradationSlug,
      ProductArn |-> ProductArn(ctx.awsPartition, ctx.awsRegion, ctx.awsAccountId),
      GeneratorId |-> HsmId,
      AwsAccountId |-> ctx.awsAccountId,
      Types |-> << "Software and Configuration Checks/AWS Security Best Practices" >>,
      FirstObservedAt |-> iso8601Time,
      CreatedAt |-> iso8601Time,
      UpdatedAt |-> iso8601Time,
      Severity |-> [Label |-> "INFORMATIONAL"],
      Confidence |-> 99,
      Title |-> "[CloudHsm.2] CloudHsm HSMs should not be in a degraded state",
      Description |-> "CloudHSM HSM " \o HsmId \o " is not in a degraded state",
      Remediation |-> [Recommendation |->
          [ Text |-> "For more information on HSM Clusters refer to the AWS CloudHsm User Guide on managing Hsms",
            Url |-> "https://docs.aws.amazon.com/cloudhsm/latest/userguide/introduction.html" ]],
      ProductFields |-> ("Product Name" :> "ElectricEye"),
      Resources |-> HsmResource(HsmId, ctx),
      Compliance |-> [Status |-> "PASSED", RelatedRequirements |-> RelatedRequirements],
      Workflow |-> [Status |-> "RESOLVED"],
      RecordState |-> "ARCHIVED" ]

\* the failing finding pasted from the passing one, RecordState left as it was
HsmDegradationFailedArchived(HsmId, iso8601Time, ctx) ==
    [HsmDegradationPassed(HsmId, iso8601Time, ctx) EXCEPT
        !.Severity = [Label |-> "HIGH"],
        !.Description = "CloudHSM HSM " \o HsmId \o " is in a degraded state",
        !.Compliance = [Status |-> "FAILED", RelatedRequirements |-> RelatedRequirements],
        !.Workflow = [Status |-> "NEW"]]

\* [CloudHsm.2], the failing finding
HsmDegradationFailed(HsmId, iso8601Time, ctx) ==
    [ SchemaVersion |-> "2018-10-08",
      Id |-> HsmId \o HsmDegradationSlug,
      ProductArn |-> ProductArn(ctx.awsPartition, ctx.awsRegion, ctx.awsAccountId),
      GeneratorId |-> HsmId,
      AwsAccountId |-> ctx.awsAccountId,
      Types |-> << "Software and Configuration Checks/AWS Security Best Practices" >>,
      FirstObservedAt |-> iso8601Time,
      CreatedAt |-> iso8601Time,
      UpdatedAt |-> iso8601Time,
      Severity |-> [Label |-> "HIGH"],
      Confidence |-> 99,
      Title |-> "[CloudHsm.2] CloudHsm HSMs should not be in a degraded state",
      Description |-> "CloudHSM HSM " \o HsmId \o " is in a degraded state",
      Remediation |-> [Recommendation |->
          [ Text |-> "For more information on HSM Clusters refer to the AWS CloudHsm User Guide on managing Hsms",
            Url |-> "https://docs.aws.amazon.com/cloudhsm/latest/userguide/introduction.html" ]],
      ProductFields |-> ("Product Name" :> "ElectricEye"),
      Resources |-> HsmResource(HsmId, ctx),
      Compliance |-> [Status |-> "FAILED", RelatedRequirements |-> RelatedRequirements],
      Workflow |-> [Status |-> "NEW"],
      RecordState |-> "ACTIVE" ]

\* [CloudHsm.3], the passing finding
ClusterBackupPassed(ClusterId, iso8601Time, ctx) ==
    [ SchemaVersion |-> "2018-10-08",
      Id |-> ClusterId \o ClusterBackupSlug,
      ProductArn |-> ProductArn(ctx.awsPartition, ctx.awsRegion, ctx.awsAccountId),
      GeneratorId |-> ClusterId,
      AwsAccountId |-> ctx.awsAccountId,
      Types |-> << "Software and Configuration Checks/AWS Security Best Practices" >>,
      FirstObservedAt |-> iso8601Time,
      CreatedAt |-> iso8601Time,
      UpdatedAt |-> iso8601Time,
      Severity |-> [Label |-> "INFORMATIONAL"],
      Confidence |-> 99,
      Title |-> "[CloudHsm.3] CloudHsm clusters should have at least 1 backup in a READY state",
      Description |-> "CloudHSM cluster " \o ClusterId \o " has at least 1 backup in a READY state",
      Remediation |-> [Recommendation |->
          [ Text |-> "For more information on HSM Clusters refer to the AWS CloudHsm User Guide on managing Backups",
            Url |-> "https://docs.aws.amazon.com/cloudhsm/latest/userguide/backups.html" ]],
      ProductFields |-> ("Product Name" :> "ElectricEye"),
      Resources |-> ClusterResource(ClusterId, ctx),
      Compliance |-> [Status |-> "PASSED", RelatedRequirements |-> RelatedRequirements],
      Workflow |-> [Status |-> "RESOLVED"],
      RecordState |-> "ARCHIVED" ]

\* [CloudHsm.3], the failing finding
ClusterBackupFailed(ClusterId, iso8601Time, ctx) ==
    [ SchemaVersion |-> "2018-10-08",
      Id |-> ClusterId \o ClusterBackupSlug,
      ProductArn |-> ProductArn(ctx.awsPartition, ctx.awsRegion, ctx.awsAccountId),
      GeneratorId |-> ClusterId,
      AwsAccountId |-> ctx.awsAccountId,
      Types |-> << "Software and Configuration Checks/AWS Security Best Practices" >>,
      FirstObservedAt |-> iso8601Time,
      CreatedAt |-> iso8601Time,
      UpdatedAt |-> iso8601Time,
      Severity |-> [Label |-> "HIGH"],
      Confidence |-> 99,
      Title |-> "[CloudHsm.3] CloudHsm clusters should have at least 1 backup in a READY state",
      Description |-> "CloudHSM cluster " \o ClusterId \o " does not have at least 1 backup in a READY state",
      Remediation |-> [Recommendation |->
          [ Text |-> "For more information on HSM Clusters refer to the AWS CloudHsm User Guide on managing Backups",
            Url |-> "https://docs.aws.amazon.com/cloudhsm/latest/userguide/backups.html" ]],
      ProductFields |-> ("Product Name" :> "ElectricEye"),
      Resources |-> ClusterResource(ClusterId, ctx),
      Compliance |-> [Status |-> "FAILED", RelatedRequirements |-> RelatedRequirements],
      Workflow |-> [Status |-> "NEW"],
      RecordState |-> "ACTIVE" ]

----------------------------------------------------------------------------
(* The generator bodies.  A generator object is a record:                  *)
(*   check, pass, ctx   the check function called, and its arguments       *)
(*                      (the cache of pass `pass`, account/region/partition)*)
(*   pc                 "created" (body not entered), "suspended" (at a    *)
(*                      yield), "done" (returned), "raised" (left by an    *)
(*                      exception)                                         *)
(*   hsm_clusters, iso8601Time   the locals set before the loop            *)
(*   i, j               the position of the for loops: the next cluster,   *)
(*                      and for the HSM check the next HSM in it           *)
(*   out, pulledAt      the findings handed to the driver, and the clock   *)
(*                      at each hand-over                                  *)
(*   calls              the provider calls this generator issued           *)
(*   result             what the driver's last next() got                  *)

Checks == { "cloudhsm_cluster_degradation_check",
            "cloudhsm_hsm_degradation_check",
            "cloudhsm_cluster_backup_check" }

\* calling a check function: a generator object, no line of the body run yet
NewGenerator(check, pass, ctx) ==
    [ check |-> check, pass |-> pass, ctx |-> ctx, pc |-> "created",
      hsm_clusters |-> PyNone, iso8601Time |-> "unset", i |-> 1, j |-> 1,
      out |-> << >>, pulledAt |-> << >>, calls |-> << >>, result |-> "none" ]

\* yield finding
Yield(gen, finding) ==
    [gen EXCEPT !.pc = "suspended", !.result = "finding",
                !.out = Append(@, finding), !.pulledAt = Append(@, clock)]

\* the for loop is over: the generator returns
Return(gen) == [gen EXCEPT !.pc = "done", !.result = "StopIteration"]

\* a provider call raised: the exception leaves the generator
Raise(gen) == [gen EXCEPT !.pc = "raised", !.result = "ClientError"]

\* ClusterNotDegraded as "if clstr['State'] == 'ACTIVE'" would have it
ClusterIsActive(clstr) == clstr.State = "ACTIVE"

\* if clstr["State"] != "DEGRADED"
ClusterNotDegraded(clstr) == clstr.State # "DEGRADED"

\* if hsm["State"] != "DEGRADED"
HsmNotDegraded(hsm) == hsm.State # "DEGRADED"

\* ActiveBackups without the filter on BackupState
AnyBackups(response) == response.Backups

\* activeBackups = [x for x in backups['Backups'] if x['BackupState'] == 'READY']
ActiveBackups(response) == SelectSeq(response.Backups, LAMBDA x : x.BackupState = "READY")

\* cloudhsm_cluster_degradation_check: the loop, from the next cluster to its yield
ClusterDegradationLoop(gen) ==
    LET Clusters == gen.hsm_clusters.Clusters IN
    IF gen.i > Len(Clusters) THEN Return(gen)
    ELSE LET clstr == Clusters[gen.i]
             ClusterId == clstr.ClusterId
             finding == IF ClusterNotDegraded(clstr)
                        THEN ClusterDegradationPassed(ClusterId, gen.iso8601Time, gen.ctx)
                        ELSE ClusterDegradationFailed(ClusterId, gen.iso8601Time, gen.ctx)
         IN Yield([gen EXCEPT !.i = @ + 1], finding)

\* NextHsm carrying the HSM position over to the next cluster
RECURSIVE NextHsmKeepsJ(_, _, _)
NextHsmKeepsJ(Clusters, i, j) ==
    IF i > Len(Clusters) THEN <<0, 0>>
    ELSE IF j <= Len(Clusters[i].Hsms) THEN <<i, j>>
    ELSE NextHsmKeepsJ(Clusters, i + 1, j)

\* the nested for loops of cloudhsm_hsm_degradation_check: the next (cluster, hsm)
\* position at or after (i, j), <<0, 0>> when both loops are over
RECURSIVE NextHsm(_, _, _)
NextHsm(Clusters, i, j) ==
    IF i > Len(Clusters) THEN <<0, 0>>
    ELSE IF j <= Len(Clusters[i].Hsms) THEN <<i, j>>
    ELSE NextHsm(Clusters, i + 1, 1)

\* cloudhsm_hsm_degradation_check: the loops, from the next HSM to its yield
HsmDegradationLoop(gen) ==
    LET Clusters == gen.hsm_clusters.Clusters
        at == NextHsm(Clusters, gen.i, gen.j)
    IN IF at = <<0, 0>> THEN Return(gen)
       ELSE LET hsm == Clusters[at[1]].Hsms[at[2]]
                HsmId == hsm.HsmId
                finding == IF HsmNotDegraded(hsm)
                           THEN HsmDegradationPassed(HsmId, gen.iso8601Time, gen.ctx)
                           ELSE HsmDegradationFailed(HsmId, gen.iso8601Time, gen.ctx)
            IN Yield([gen EXCEPT !.i = at[1], !.j = at[2] + 1], finding)

\* the backup check's loop with the failure of describe_backups caught and
\* taken for "no backups"
ClusterBackupLoopCatches(gen, ok) ==
    LET Clusters == gen.hsm_clusters.Clusters IN
    IF gen.i > Len(Clusters) THEN Return(gen)
    ELSE LET clstr == Clusters[gen.i]
             ClusterId == clstr.ClusterId
             Filters == [clusterIds |-> <<ClusterId>>]
             called == [gen EXCEPT !.calls =
                           Append(@, [op |-> "describe_backups", Filters |-> Filters, ok |-> ok])]
             response == IF ok THEN ProviderDescribeBackups(Filters) ELSE [Backups |-> << >>]
             finding == IF Len(ActiveBackups(response)) > 0
                        THEN ClusterBackupPassed(ClusterId, gen.iso8601Time, gen.ctx)
                        ELSE ClusterBackupFailed(ClusterId, gen.iso8601Time, gen.ctx)
         IN Yield([called EXCEPT !.i = @ + 1], finding)

\* the backup check's loop reading the clock for every finding
ClusterBackupLoopNow(gen, ok) ==
    LET Clusters == gen.hsm_clusters.Clusters IN
    IF gen.i > Len(Clusters) THEN Return(gen)
    ELSE LET clstr == Clusters[gen.i]
             ClusterId == clstr.ClusterId
             Filters == [clusterIds |-> <<ClusterId>>]
             called == [gen EXCEPT !.calls =
                           Append(@, [op |-> "describe_backups", Filters |-> Filters, ok |-> ok])]
             response == ProviderDescribeBackups(Filters)
             finding == IF Len(ActiveBackups(response)) > 0
                        THEN ClusterBackupPassed(ClusterId, IsoFormat(clock), gen.ctx)
                        ELSE ClusterBackupFailed(ClusterId, IsoFormat(clock), gen.ctx)
         IN IF ok THEN Yield([called EXCEPT !.i = @ + 1], finding)
            ELSE Raise(called)

\* the backup check's loop fetching the backups of every cluster on entry,
\* before the first yield
ClusterBackupLoopBatched(gen, ok) ==
    LET Clusters == gen.hsm_clusters.Clusters IN
    IF gen.i > Len(Clusters) THEN Return(gen)
    ELSE LET clstr == Clusters[gen.i]
             ClusterId == clstr.ClusterId
             Filters == [clusterIds |-> <<ClusterId>>]
             called == [gen EXCEPT !.calls =
                          IF gen.i = 1
                          THEN @ \o [k \in 1..Len(Clusters) |->
                                       [op |-> "describe_backups",
                                        Filters |-> [clusterIds |-> <<Clusters[k].ClusterId>>],
                                        ok |-> ok]]
                          ELSE @]
             response == ProviderDescribeBackups(Filters)
             finding == IF Len(ActiveBackups(response)) > 0
                        THEN ClusterBackupPassed(ClusterId, gen.iso8601Time, gen.ctx)
                        ELSE ClusterBackupFailed(ClusterId, gen.iso8601Time, gen.ctx)
         IN IF ok \/ gen.i > 1 THEN Yield([called EXCEPT !.i = @ + 1], finding)
            ELSE Raise(called)

\* cloudhsm_cluster_backup_check: the loop, from the next cluster to its yield;
\* describe_backups for that cluster succeeds (ok) or raises
ClusterBackupLoop(gen, ok) ==
    LET Clusters == gen.hsm_clusters.Clusters IN
    IF gen.i > Len(Clusters) THEN Return(gen)
    ELSE LET clstr == Clusters[gen.i]
             ClusterId == clstr.ClusterId
             Filters == [clusterIds |-> <<ClusterId>>]
             called == [gen EXCEPT !.calls =
                           Append(@, [op |-> "describe_backups", Filters |-> Filters, ok |-> ok])]
             response == ProviderDescribeBackups(Filters)
             finding == IF Len(ActiveBackups(response)) > 0
                        THEN ClusterBackupPassed(ClusterId, gen.iso8601Time, gen.ctx)
                        ELSE ClusterBackupFailed(ClusterId, gen.iso8601Time, gen.ctx)
         IN IF ok THEN Yield([called EXCEPT !.i = @ + 1], finding)
            ELSE Raise(called)

\* the loop of whichever check the generator runs
Loop(gen, okBackups) ==
    CASE gen.check = "cloudhsm_cluster_degradation_check" -> ClusterDegradationLoop(gen)
      [] gen.check = "cloudhsm_hsm_degradation_check" -> HsmDegradationLoop(gen)
      [] gen.check = "cloudhsm_cluster_backup_check" -> ClusterBackupLoop(gen, okBackups)

\* describe_clusters with the provider's failure caught and an empty list of
\* clusters stored in its place
describe_clustersCachesError(cache, gen, ok) ==
    LET response == CacheGet(cache, "describe_clusters")
        called == [gen EXCEPT !.calls =
                      Append(@, [op |-> "describe_clusters", Filters |-> PyNone, ok |-> ok])]
    IN IF Truthy(response) THEN <<cache, [gen EXCEPT !.hsm_clusters = response]>>
       ELSE IF ok
            THEN LET stored == CacheSet(cache, "describe_clusters", ProviderDescribeClusters)
                 IN <<stored, [called EXCEPT !.hsm_clusters = stored["describe_clusters"]]>>
            ELSE <<CacheSet(cache, "describe_clusters", [Clusters |-> << >>]), Raise(called)>>

\* describe_clusters(cache), called by a generator on its first next():
\* <<the cache after the call, the generator after the call>>; the generator
\* holds the response, or was left by the provider's exception
describe_clusters(cache, gen, ok) ==
    LET response == CacheGet(cache, "describe_clusters")
        called == [gen EXCEPT !.calls =
                      Append(@, [op |-> "describe_clusters", Filters |-> PyNone, ok |-> ok])]
    IN IF Truthy(response) THEN <<cache, [gen EXCEPT !.hsm_clusters = response]>>
       ELSE IF ok
            THEN LET stored == CacheSet(cache, "describe_clusters", ProviderDescribeClusters)
                 IN <<stored, [called EXCEPT !.hsm_clusters = stored["describe_clusters"]]>>
            ELSE <<cache, Raise(called)>>

\* the first lines of each check, up to the loop
Prologue(cache, gen, okClusters) ==
    LET r == describe_clusters(cache, gen, okClusters)
    IN IF r[2].pc = "raised" THEN r
       ELSE <<r[1], [r[2] EXCEPT !.iso8601Time = IsoFormat(clock)]>>

----------------------------------------------------------------------------------------------------------------------------------------
(* The driver and the environment *)

\* the account, region and partition a check may be called with
Contexts ==
    { [awsAccountId |-> "111122223333", awsRegion |-> "us-east-1", awsPartition |-> "aws"],
      [awsAccountId |-> "444455556666", awsRegion |-> "cn-north-1", awsPartition |-> "aws-cn"] }

\* the driver, through with every generator of this audit pass, starts the next
\* pass, later: a new, empty cache
NewPass ==
    /\ Len(caches) < MaxPasses
    /\ \A g \in 1..Len(gens) : gens[g].pc \in {"done", "raised"}
    /\ caches' = Append(caches, << >>)
    /\ clock' = clock + 1
    /\ UNCHANGED <<clusters, backups, gens>>

\* the driver calls a registered check with the cache of the current pass
Invoke(check, ctx) ==
    /\ Len(gens) < MaxGens
    /\ gens' = Append(gens, NewGenerator(check, Len(caches), ctx))
    /\ UNCHANGED <<clusters, backups, caches, clock>>

\* the driver calls one check, and no other after it
InvokeOnce(check, ctx) ==
    /\ gens = << >>
    /\ Invoke(check, ctx)

\* what the provider lets fail during one next(): at most one call, since the
\* first exception ends the generator
Failures == {"nothing", "describe_clusters", "describe_backups"}

\* the driver's next(g): the body runs to its next yield, its return or an
\* exception; a finished generator only raises StopIteration
Pull(g, fails) ==
    /\ g \in 1..Len(gens)
    /\ LET gen == gens[g]
           okClusters == fails # "describe_clusters"
           okBackups == fails # "describe_backups"
       IN
       CASE gen.pc = "created" ->
              LET r == Prologue(caches[gen.pass], gen, okClusters) IN
              /\ caches' = [caches EXCEPT ![gen.pass] = r[1]]
              /\ gens' = [gens EXCEPT ![g] = IF r[2].pc = "raised" THEN r[2]
                                             ELSE Loop(r[2], okBackups)]
         [] gen.pc = "suspended" ->
              /\ gens' = [gens EXCEPT ![g] = Loop(gen, okBackups)]
              /\ UNCHANGED caches
         [] gen.pc \in {"done", "raised"} ->
              /\ gens' = [gens EXCEPT ![g].result = "StopIteration"]
              /\ UNCHANGED caches
    /\ UNCHANGED <<clusters, backups, clock>>

\* time passes
Tick ==
    /\ clock < MaxClock
    /\ clock' = clock + 1
    /\ UNCHANGED <<clusters, backups, caches, gens>>

----------------------------------------------------------------------------
(* Provider states the model starts from *)

RECURSIVE SeqsUpTo(_, _)
SeqsUpTo(S, n) ==
    IF n = 0 THEN { << >> }
    ELSE LET shorter == SeqsUpTo(S, n - 1)
         IN shorter \cup { Append(q, x) : q \in { r \in shorter : Len(r) = n - 1 }, x \in S }

RECURSIVE SumLen(_)
SumLen(qs) == IF qs = << >> THEN 0 ELSE Len(Head(qs)) + SumLen(Tail(qs))

ClusterIdOf(k) == "cluster-" \o ToString(k)
HsmIdOf(k, j) == "hsm-" \o ToString(k) \o ToString(j)

ClusterStates == {"ACTIVE", "DEGRADED", "INITIALIZED"}
HsmStates == {"ACTIVE", "DEGRADED"}
BackupStates == {"READY", "PENDING_DELETION"}

\* n clusters, their states st and the states hs of the HSMs of each
ClusterList(n, st, hs) ==
    [k \in 1..n |-> [ClusterId |-> ClusterIdOf(k),
                     State |-> st[k],
                     Hsms |-> [j \in 1..Len(hs[k]) |->
                                  [HsmId |-> HsmIdOf(k, j), State |-> hs[k][j]]]]]

NoHsms(n) == [k \in 1..n |-> << >>]

\* accounts of clusters in any state, without HSMs
BareAccounts ==
    { ClusterList(n, st, NoHsms(n)) :
        <<n, st>> \in UNION { {n} \X [1..n -> ClusterStates] : n \in 0..MaxClusters } }

\* accounts of clusters with HSMs, each cluster and each HSM degraded or not
HsmAccounts ==
    { ClusterList(n, st, hs) :
        <<n, st, hs>> \in
          { <<n, st, hs>> \in
              UNION { {n} \X [1..n -> HsmStates] \X [1..n -> SeqsUpTo(HsmStates, MaxHsms)] :
                      n \in 0..MaxClusters } : SumLen(hs) <= MaxHsms } }

\* accounts of active clusters without HSMs, to go with backups
BackedUpAccounts ==
    { ClusterList(n, [k \in 1..n |-> "ACTIVE"], NoHsms(n)) : n \in 0..MaxClusters }

BackupLists(cl) ==
    SeqsUpTo([ClusterId : {cl[k].ClusterId : k \in 1..Len(cl)}, BackupState : BackupStates],
             MaxBackups)

InitProvider ==
    \/ clusters \in BareAccounts \cup HsmAccounts /\ backups = << >>
    \/ clusters \in BackedUpAccounts /\ backups \in BackupLists(clusters)

Init ==
    /\ InitProvider
    /\ caches = << << >> >>
    /\ gens = << >>
    /\ clock = 0

Next ==
    \/ \E check \in Checks, ctx \in Contexts : InvokeOnce(check, ctx)
    \/ \E fails \in Failures : Pull(1, fails)
    \/ Tick

\* one check, run by the driver against any account
Spec == Init /\ [][Next]_vars

\* the accounts audited over several passes: cluster k with one HSM, the odd
\* clusters active with a degraded HSM and the even ones the reverse; the HSM
\* ids are the provider's or, with sameIds, the ids of their clusters; the
\* first cluster has a backup
DriverAccount(n, sameIds) ==
    [k \in 1..n |-> [ClusterId |-> ClusterIdOf(k),
                     State |-> IF k % 2 = 1 THEN "ACTIVE" ELSE "DEGRADED",
                     Hsms |-> << [HsmId |-> IF sameIds THEN ClusterIdOf(k) ELSE HsmIdOf(k, 1),
                                  State |-> IF k % 2 = 1 THEN "DEGRADED" ELSE "ACTIVE"] >>]]

\* the account, region and partition the driver audits in every pass
DriverContext ==
    [awsAccountId |-> "111122223333", awsRegion |-> "us-east-1", awsPartition |-> "aws"]

InitDriver ==
    /\ \E n \in 0..MaxDriverClusters, sameIds \in BOOLEAN :
         /\ n = 0 => ~sameIds
         /\ clusters = DriverAccount(n, sameIds)
         /\ backups = IF n = 0 THEN << >>
                      ELSE << [ClusterId |-> ClusterIdOf(1), BackupState |-> "READY"] >>
    /\ caches = << << >> >>
    /\ gens = << >>
    /\ clock = 0

NextDriver ==
    \/ NewPass
    \/ \E check \in Checks : Invoke(check, DriverContext)
    \/ \E g \in 1..MaxGens, fails \in Failures : Pull(g, fails)

\* the driver runs passes, calling checks and pulling from them in any order
SpecDriver == InitDriver /\ [][NextDriver]_vars

----------------------------------------------------------------------------
(* Properties *)

GenIds == 1..Len(gens)

\* the provider calls of kind op that generator g issued, as <<g, n>> positions
CallsOf(g, op) == { <<g, n>> : n \in { m \in 1..Len(gens[g].calls) : gens[g].calls[m].op = op } }

\* the describe_clusters calls issued in pass p, by any of its generators
ClusterCallsInPass(p) ==
    UNION { CallsOf(g, "describe_clusters") : g \in { h \in GenIds : gens[h].pass = p } }

FailedCalls(S) == { c \in S : ~gens[c[1]].calls[c[2]].ok }

\* the outcome fields of a finding
Outcome(f) == <<f.Compliance.Status, f.Severity.Label, f.Workflow.Status, f.RecordState>>
PassedOutcome == <<"PASSED", "INFORMATIONAL", "RESOLVED", "ARCHIVED">>
FailedOutcome == <<"FAILED", "HIGH", "NEW", "ACTIVE">>

\* the id of the resource a finding is about
ResourceId(f) == f.Resources[1].Id

\* C1: in one pass, whatever checks are called and however the pulls from
\* them interleave, at most one describe_clusters call succeeds, and when none
\* fails at most one is issued; zero clusters included.
C1_CacheOnce ==
    \A p \in 1..Len(caches) :
        LET issued == ClusterCallsInPass(p) IN
        /\ Cardinality(issued \ FailedCalls(issued)) <= 1
        /\ FailedCalls(issued) = {} => Cardinality(issued) <= 1

\* two checks of one pass over an account without clusters have both fetched
\* the cluster list, and one provider call was issued
C1_Witness ==
    /\ clusters = << >>
    /\ \E g \in GenIds, h \in GenIds :
         /\ gens[g].check # gens[h].check
         /\ gens[g].pass = gens[h].pass
         /\ gens[g].pc = "done" /\ gens[h].pc = "done"
         /\ Cardinality(ClusterCallsInPass(gens[g].pass)) = 1

\* C2: the findings of the cluster degradation check are, in order, one per
\* cluster of the snapshot, PASSED/INFORMATIONAL when the cluster's State is
\* not DEGRADED and FAILED/HIGH/NEW/ACTIVE when it is, whatever its HSMs; a
\* finished run has one for every cluster.
C2_ClusterDegradation ==
    \A g \in GenIds :
        gens[g].check = "cloudhsm_cluster_degradation_check" =>
            LET out == gens[g].out IN
            /\ Len(out) <= Len(clusters)
            /\ gens[g].pc = "done" => Len(out) = Len(clusters)
            /\ \A k \in 1..Len(out) :
                 /\ ResourceId(out[k]) = clusters[k].ClusterId
                 /\ IF clusters[k].State # "DEGRADED"
                    THEN /\ out[k].Compliance.Status = "PASSED"
                         /\ out[k].Severity.Label = "INFORMATIONAL"
                    ELSE Outcome(out[k]) = FailedOutcome

\* a finished run over a degraded cluster and one that is neither degraded nor
\* active
C2_Witness ==
    /\ gens # << >>
    /\ gens[1].check = "cloudhsm_cluster_degradation_check"
    /\ gens[1].pc = "done"
    /\ \E k \in 1..Len(clusters), l \in 1..Len(clusters) :
         clusters[k].State = "DEGRADED" /\ clusters[l].State = "INITIALIZED"

\* the HSMs of the snapshot, cluster after cluster
RECURSIVE AllHsms(_)
AllHsms(Clusters) ==
    IF Clusters = << >> THEN << >> ELSE Head(Clusters).Hsms \o AllHsms(Tail(Clusters))

\* C3: the findings of the HSM degradation check are, in order, one per HSM
\* of the snapshot; each is FAILED exactly when its own HSM is DEGRADED; a
\* finished run has, for every cluster, as many findings as the cluster has
\* HSMs, none for a cluster without HSMs.
C3_HsmDegradation ==
    \A g \in GenIds :
        gens[g].check = "cloudhsm_hsm_degradation_check" =>
            LET out == gens[g].out
                hsms == AllHsms(clusters)
            IN
            /\ Len(out) <= Len(hsms)
            /\ \A n \in 1..Len(out) :
                 /\ ResourceId(out[n]) = hsms[n].HsmId
                 /\ out[n].Compliance.Status =
                        IF hsms[n].State = "DEGRADED" THEN "FAILED" ELSE "PASSED"
            /\ gens[g].pc = "done" =>
                 \A k \in 1..Len(clusters) :
                     Cardinality({ n \in 1..Len(out) :
                                     \E j \in 1..Len(clusters[k].Hsms) :
                                         ResourceId(out[n]) = clusters[k].Hsms[j].HsmId })
                         = Len(clusters[k].Hsms)

\* a finished run over a cluster with a degraded and a healthy HSM, next to a
\* cluster without HSMs
C3_Witness ==
    /\ gens # << >>
    /\ gens[1].check = "cloudhsm_hsm_degradation_check"
    /\ gens[1].pc = "done"
    /\ \E k \in 1..Len(clusters), l \in 1..Len(clusters) :
         /\ clusters[l].Hsms = << >>
         /\ \E i \in 1..Len(clusters[k].Hsms), j \in 1..Len(clusters[k].Hsms) :
              clusters[k].Hsms[i].State = "DEGRADED" /\ clusters[k].Hsms[j].State # "DEGRADED"

\* cluster k has a READY backup of its own
HasReadyBackup(k) ==
    \E b \in 1..Len(backups) :
        backups[b].ClusterId = clusters[k].ClusterId /\ backups[b].BackupState = "READY"

\* C4: the findings of the backup check are, in order, one per cluster, PASSED
\* when a backup of that cluster is READY and FAILED when none is (no backup at
\* all included), whatever the backups of the other clusters; a run that ended
\* without a provider failure has one for every cluster.
C4_ClusterBackup ==
    \A g \in GenIds :
        gens[g].check = "cloudhsm_cluster_backup_check" =>
            LET out == gens[g].out IN
            /\ Len(out) <= Len(clusters)
            /\ gens[g].pc = "done" => Len(out) = Len(clusters)
            /\ \A k \in 1..Len(out) :
                 /\ ResourceId(out[k]) = clusters[k].ClusterId
                 /\ out[k].Compliance.Status = IF HasReadyBackup(k) THEN "PASSED" ELSE "FAILED"

\* a finished run over a cluster whose only backup is not READY, while another
\* cluster has a READY one
C4_Witness ==
    /\ gens # << >>
    /\ gens[1].check = "cloudhsm_cluster_backup_check"
    /\ gens[1].pc = "done"
    /\ \E k \in 1..Len(clusters), l \in 1..Len(clusters) :
         /\ ~HasReadyBackup(k)
         /\ \E b \in 1..Len(backups) : backups[b].ClusterId = clusters[k].ClusterId
         /\ HasReadyBackup(l)

\* the rule slug of a check
SlugOf(check) ==
    CASE check = "cloudhsm_cluster_degradation_check" -> ClusterDegradationSlug
      [] check = "cloudhsm_hsm_degradation_check" -> HsmDegradationSlug
      [] check = "cloudhsm_cluster_backup_check" -> ClusterBackupSlug

\* C5: every finding's Id is the id of its resource followed by the slug of
\* its rule, and the Id tells the (resource, rule) pair: two findings of one
\* pass with the same Id are findings of the same rule about the same resource.
C5_IdTellsResourceAndRule ==
    \A g \in GenIds, h \in GenIds :
        \A n \in 1..Len(gens[g].out), m \in 1..Len(gens[h].out) :
            LET f == gens[g].out[n]
                e == gens[h].out[m]
            IN /\ f.Id = ResourceId(f) \o SlugOf(gens[g].check)
               /\ (gens[g].pass = gens[h].pass /\ f.Id = e.Id) =>
                      /\ gens[g].check = gens[h].check
                      /\ f.Resources[1].Type = e.Resources[1].Type
                      /\ ResourceId(f) = ResourceId(e)

\* the rule of a check held for the resource with id rid
PredicateHeld(check, rid) ==
    CASE check = "cloudhsm_cluster_degradation_check" ->
           \E k \in 1..Len(clusters) :
               clusters[k].ClusterId = rid /\ clusters[k].State # "DEGRADED"
      [] check = "cloudhsm_hsm_degradation_check" ->
           \E n \in 1..Len(AllHsms(clusters)) :
               AllHsms(clusters)[n].HsmId = rid /\ AllHsms(clusters)[n].State # "DEGRADED"
      [] check = "cloudhsm_cluster_backup_check" ->
           \E k \in 1..Len(clusters) : clusters[k].ClusterId = rid /\ HasReadyBackup(k)

\* C6: every finding handed out carries PASSED/INFORMATIONAL/RESOLVED/ARCHIVED
\* or FAILED/HIGH/NEW/ACTIVE, never a mix, and the first exactly when the rule
\* held for its resource.
C6_OutcomeTuples ==
    \A g \in GenIds :
        \A n \in 1..Len(gens[g].out) :
            LET f == gens[g].out[n] IN
            /\ Outcome(f) \in {PassedOutcome, FailedOutcome}
            /\ Outcome(f) = PassedOutcome <=> PredicateHeld(gens[g].check, ResourceId(f))

\* the HSM check has handed out a passed and a failed finding
C6_Witness ==
    /\ gens # << >>
    /\ gens[1].check = "cloudhsm_hsm_degradation_check"
    /\ \E n \in 1..Len(gens[1].out), m \in 1..Len(gens[1].out) :
         /\ Outcome(gens[1].out[n]) = PassedOutcome
         /\ Outcome(gens[1].out[m]) = FailedOutcome

\* a finding without its three timestamps
WithoutTimes(f) ==
    [k \in DOMAIN f \ {"FirstObservedAt", "CreatedAt", "UpdatedAt"} |-> f[k]]

\* C7: two finished runs of the same check with the same account, region and
\* partition, in one pass or in two, handed out equally many findings, equal
\* one by one in every field but FirstObservedAt, CreatedAt and UpdatedAt.
C7_Idempotent ==
    \A g \in GenIds, h \in GenIds :
        ( /\ gens[g].check = gens[h].check
          /\ gens[g].ctx = gens[h].ctx
          /\ gens[g].pc = "done" /\ gens[h].pc = "done" ) =>
            /\ Len(gens[g].out) = Len(gens[h].out)
            /\ \A n \in 1..Len(gens[g].out) :
                 WithoutTimes(gens[g].out[n]) = WithoutTimes(gens[h].out[n])

\* the same check has run to its end in two passes, at different times, with
\* a finding each
C7_Witness ==
    \E g \in GenIds, h \in GenIds :
        /\ gens[g].check = gens[h].check
        /\ gens[g].pass # gens[h].pass
        /\ gens[g].pc = "done" /\ gens[h].pc = "done"
        /\ gens[g].out # << >>
        /\ gens[g].out[1].CreatedAt # gens[h].out[1].CreatedAt

\* the describe_backups calls of a generator, in the order issued
BackupCalls(gen) == SelectSeq(gen.calls, LAMBDA c : c.op = "describe_backups")

\* the calls of a generator that the provider failed
Failed(gen) == SelectSeq(gen.calls, LAMBDA c : ~c.ok)

IsPrefix(p, q) == Len(p) <= Len(q) /\ \A n \in 1..Len(p) : p[n] = q[n]

\* after a failed provider call: the generator was left by the exception right
\* there; nothing was handed out if describe_clusters failed, and only the
\* findings of the clusters before the k-th if describe_backups failed for
\* the k-th
C8_AfterFailure ==
    \A g \in GenIds :
        LET gen == gens[g] IN
        /\ gen.pc = "raised" <=> Failed(gen) # << >>
        /\ Failed(gen) # << >> =>
             /\ ~gen.calls[Len(gen.calls)].ok
             /\ Len(Failed(gen)) = 1
             /\ gen.result \in {"ClientError", "StopIteration"}
             /\ gen.calls[Len(gen.calls)].op = "describe_clusters" => gen.out = << >>
             /\ gen.calls[Len(gen.calls)].op = "describe_backups" =>
                  /\ Len(gen.out) = Len(BackupCalls(gen)) - 1
                  /\ \A n \in 1..Len(gen.out) :
                       ResourceId(gen.out[n]) = clusters[n].ClusterId

\* a step: the pull during which a provider call fails hands the driver the
\* error and no finding; what was handed out stays as it is; a generator left
\* by an exception hands out nothing any more
C8_Step ==
    \A g \in GenIds :
        /\ IsPrefix(gens[g].out, gens'[g].out)
        /\ Len(Failed(gens'[g])) > Len(Failed(gens[g])) =>
             /\ gens'[g].result = "ClientError"
             /\ gens'[g].out = gens[g].out
        /\ gens[g].pc = "raised" =>
             /\ gens'[g].pc = "raised"
             /\ gens'[g].out = gens[g].out
             /\ gens'[g].calls = gens[g].calls

\* C8: a provider failure is not caught by the check: the error reaches the
\* driver on that pull, no finding is handed out for the resource whose fetch
\* failed nor for any later one, and the findings handed out before stay.
C8_NoPartialFindings == [](C8_AfterFailure) /\ [][C8_Step]_vars

\* describe_backups failed for the second cluster, after the finding of the
\* first, and the driver has pulled once more since
C8_Witness ==
    /\ gens # << >>
    /\ gens[1].check = "cloudhsm_cluster_backup_check"
    /\ gens[1].pc = "raised"
    /\ Len(gens[1].out) = 1
    /\ Len(BackupCalls(gens[1])) = 2
    /\ gens[1].result = "StopIteration"

\* the three timestamps of a finding are the time t
TimesAre(f, t) == f.FirstObservedAt = t /\ f.CreatedAt = t /\ f.UpdatedAt = t

\* C9 as claimed: the timestamps of every finding are the clock at the moment
\* the finding is made, that is during the pull that hands it out.
C9_NowAtConstruction ==
    \A g \in GenIds :
        \A n \in 1..Len(gens[g].out) :
            TimesAre(gens[g].out[n], IsoFormat(gens[g].pulledAt[n]))

\* C9, amended: the three timestamps of every finding are equal and are the
\* clock as read once by the run, during the driver's first pull, right after
\* describe_clusters returned: every finding of the run carries that time.
C9_NowAtFirstPull ==
    \A g \in GenIds :
        \A n \in 1..Len(gens[g].out) :
            /\ TimesAre(gens[g].out[n], gens[g].iso8601Time)
            /\ gens[g].iso8601Time = IsoFormat(gens[g].pulledAt[1])

\* the backup check handed out its second finding later than its first
C9_Witness ==
    /\ gens # << >>
    /\ gens[1].check = "cloudhsm_cluster_backup_check"
    /\ Len(gens[1].out) >= 2
    /\ gens[1].pulledAt[2] > gens[1].pulledAt[1]

\* C10: a check called and not yet pulled from has issued no provider call;
\* the backup check, as long as no call failed, has issued as many
\* describe_backups calls as it has handed out findings, the n-th filtered by
\* the id of the n-th cluster alone, none of them kept in the cache; at its
\* end it has issued one per cluster.
C10_Interleaved ==
    \A g \in GenIds :
        LET gen == gens[g]
            calls == BackupCalls(gen)
        IN
        /\ gen.pc = "created" => gen.calls = << >>
        /\ DOMAIN caches[gen.pass] \subseteq {"describe_clusters"}
        /\ gen.check = "cloudhsm_cluster_backup_check" =>
             /\ Failed(gen) = << >> => Len(calls) = Len(gen.out)
             /\ \A n \in 1..Len(calls) :
                  calls[n].Filters.clusterIds = << clusters[n].ClusterId >>
             /\ gen.pc = "done" => Len(calls) = Len(clusters)
        /\ gen.check # "cloudhsm_cluster_backup_check" => calls = << >>

\* the backup check is suspended after the finding of the first of two
\* clusters, one describe_backups call issued
C10_Witness ==
    /\ gens # << >>
    /\ gens[1].check = "cloudhsm_cluster_backup_check"
    /\ gens[1].pc = "suspended"
    /\ Len(clusters) = 2
    /\ Len(gens[1].out) = 1
    /\ Len(BackupCalls(gens[1])) = 1

\* the describe_clusters calls of a generator
ClusterCalls(gen) == SelectSeq(gen.calls, LAMBDA c : c.op = "describe_clusters")

\* those of them that the provider failed
FailedClusterCalls(gen) == SelectSeq(ClusterCalls(gen), LAMBDA c : ~c.ok)

\* the cache of a pass holds nothing, or the provider's cluster list under the
\* one key "describe_clusters"
C11_CacheKeys ==
    \A p \in 1..Len(caches) :
        \/ caches[p] = << >>
        \/ /\ DOMAIN caches[p] = {"describe_clusters"}
           /\ caches[p]["describe_clusters"] = ProviderDescribeClusters

\* a step: the cache of a pass changes only from empty to the response of a
\* describe_clusters call that succeeds in this step; a stored value stays;
\* a step in which describe_clusters fails leaves every cache as it was; and a
\* check of the pass that requests the cluster list issues the provider call
\* exactly when the cache of its pass is empty
C11_Step ==
    /\ \A p \in 1..Len(caches) :
         /\ caches[p] # << >> => caches'[p] = caches[p]
         /\ caches'[p] # caches[p] =>
              \E g \in GenIds :
                  /\ gens[g].pass = p
                  /\ Len(ClusterCalls(gens'[g])) = Len(ClusterCalls(gens[g])) + 1
                  /\ ClusterCalls(gens'[g])[Len(ClusterCalls(gens'[g]))].ok
    /\ \A g \in GenIds :
         /\ Len(FailedClusterCalls(gens'[g])) > Len(FailedClusterCalls(gens[g])) =>
              \A p \in 1..Len(caches) : caches'[p] = caches[p]
         /\ (gens[g].pc = "created" /\ gens'[g].pc # "created") =>
              ( Len(ClusterCalls(gens'[g])) = 1 <=> caches[gens[g].pass] = << >> )

\* C11: the cache is changed only by a describe_clusters fetch that succeeds:
\* its keys are none or "describe_clusters" alone, a stored value is neither
\* overwritten nor removed during the pass, and a failed describe_clusters
\* call leaves the cache as it was, so that the next check of the pass to
\* request the cluster list calls the provider again.
C11_CacheFrame == [](C11_CacheKeys) /\ [][C11_Step]_vars

\* in one pass, a check was left by the failure of describe_clusters and a
\* check pulled after it called the provider again, which filled the cache
C11_Witness ==
    \E g \in GenIds, h \in GenIds :
        /\ gens[g].pass = gens[h].pass
        /\ gens[g].pc = "raised"
        /\ gens[g].calls = << [op |-> "describe_clusters", Filters |-> PyNone, ok |-> FALSE] >>
        /\ ClusterCalls(gens[h]) = << [op |-> "describe_clusters", Filters |-> PyNone, ok |-> TRUE] >>
        /\ caches[gens[g].pass] # << >>

====
